---- MODULE Spec2Model ----
(***************************************************************************)
(* Model of the connection pool of stevecallear/sonic (pool/pool.go).      *)
(*                                                                         *)
(* A fixed set of goroutines call Pool.Exec / Pool.Query concurrently.     *)
(* Every statement of next, new, restore and remove that touches shared    *)
(* state (the items queue, curSize, the mutex) is one action, so that all  *)
(* interleavings of the unlocked len(p.items) read, the locked section of  *)
(* new / remove and the select in next are explored.  Taking the mutex is  *)
(* one action with the first statement executed under it.  Exec and Query  *)
(* run the same statements; they differ in fn returning a result value.    *)
(*                                                                         *)
(* Time is discrete: one tick is thirty seconds.  time.After(p.timeout) is    *)
(* armed when a caller enters the select; waited[c] counts the ticks since *)
(* then.  A value sent on items is handed to a goroutine parked in the     *)
(* select before time advances (the Go runtime hands a sent value directly *)
(* to a parked receiver), and an expired timer wakes its goroutine before  *)
(* time advances further.                                                  *)
(*                                                                         *)
(* Spec / FairSpec: Exec and Query on an open pool; LiveSpec adds that     *)
(* time passes and every operation returns.  SpecClose: the same           *)
(* calls with one goroutine calling Pool.Close, statement by statement.    *)
(* ChanSpec: one channel of channel.go, from newChannel (dial, START,      *)
(* two reads, parseMaxRunes) through Ping to Close, with lines as token    *)
(* sequences.  CmdSpec: one call of channel.Split, channel.Escape,         *)
(* Ingest.Push, Ingest.Pop, Ingest.Count or Control.Info on a ready        *)
(* channel, with texts as byte sequences and Split run loop by loop.       *)
(***************************************************************************)
EXTENDS Integers, Sequences, FiniteSets, TLC

\* ---------------------------------------------------------------- bounds
NumCallers == 2        \* goroutines calling Exec / Query
MaxChannels == 3       \* channels the factory hands out in one behaviour
MaxSizeOpt == 2        \* largest Options.Size tried
MaxTimeoutOpt == 1     \* largest Options.Timeout tried (ticks)
MaxTextLen == 3        \* longest request text tried (bytes)
MaxBudget == 2         \* largest rune budget (channel.maxRunes) tried

\* 30 * time.Second, in ticks of thirty seconds
DefaultTimeout == 1

Callers == 1..NumCallers
ChanIds == 1..MaxChannels
NoChan == 0            \* a nil Channel / unset local
NoOwner == 0           \* mutex unlocked

SizeOpts == 0..MaxSizeOpt
TimeoutOpts == 0..MaxTimeoutOpt

\* error values
Nil == "nil"
EOF == "io.EOF"
ErrProto == "ERR"          \* errors.New(reason) built by channel.Read for an ERR line
ErrOther == "error"        \* any other error an operation returns
ErrNew == "newErr"         \* the error returned by the factory
ErrTimeout == "ErrTimeout"
ErrClose == "closeErr"     \* the error a Channel's Close returns
Panic == "panic"           \* the call ended in a run-time panic
OpErrs == {Nil, EOF, ErrProto, ErrOther}

NoRes == "none"            \* Exec: fn returns an error only
QueryRes == "res"          \* Query: the interface{} value fn returns
\* what fn can return: an error alone (Exec, or Query with a nil result) or a
\* result with a nil error (Query)
Outcomes == {<<e, NoRes>> : e \in OpErrs} \cup {<<Nil, QueryRes>>}

VARIABLES
  maxSize,     \* Pool.maxSize
  timeout,     \* Pool.timeout (ticks)
  items,       \* Pool.items: buffered chan Channel, FIFO, capacity maxSize
  curSize,     \* Pool.curSize
  mu,          \* Pool.mu: NoOwner or the caller holding the lock
  nextId,      \* identity of the next channel the factory returns
  closeCalls,  \* per channel: number of Close() calls made on it
  pc,          \* per caller: position in Exec/Query
  newc,        \* per caller: local c of new() (channel made by this call)
  held,        \* per caller: local c of Exec/Query (channel given to fn)
  err,         \* per caller: local err of Exec/Query after fn returned
  res,         \* per caller: local res of Query after fn returned
  result,      \* per caller: value returned by the last finished call
  waited,      \* per caller: ticks since time.After was armed in select
  \* history variables (not program state)
  log,         \* per caller: pool events performed by the current/last call
  errRestored, \* channel most recently restored after a failed operation
  evictSeen,   \* per caller: an eviction completed while it was blocked
               \*   in the select with its timer still running
  lastEvict,   \* an eviction completed and no call has begun since
  afterEvict,  \* per caller: this call is the next one after an eviction
  soloEmpty,   \* per caller: began with nothing idle, no other call since
  \* Pool.Close
  closed,      \* close(p.items) has been executed
  cpc,         \* position of the goroutine that calls Pool.Close
  closeErr,    \* value returned by Pool.Close: <<error, channel it came from>>
  idleAtClose, \* history: the queue at the moment of close(p.items)
  drained,     \* history: the channels the range loop of Close received
  closeRaced,  \* history: a caller was about to receive at that moment
  \* one channel (channel.go)
  conn,        \* the net.Conn of the channel: "none", "open" or "closed"
  chpc,        \* position in the life of the channel
  maxRunes,    \* channel.maxRunes
  returned,    \* what newChannel returned: "none" yet, "nil" or "channel"
  chErr,       \* error returned by the last newChannel / operation / Close
  lastRead,    \* history: what the stream delivered to the last Read
  lastOp,      \* history: the last function of the channel that ran
  wrote,       \* history: the Write of that function succeeded
  \* one call of Split, Escape or a command on a ready channel
  text,        \* the text of the request (bytes)
  budget,      \* c.maxRunes of the channel used
  op,          \* the function called: "Split", "Escape", "Push", "Pop", ...
  ipc,         \* position in that function
  rs,          \* Split: rs, the runes of the text
  idx,         \* Split: the loop variable i
  ss,          \* Split: ss, the chunks appended so far
  esc,         \* Escape: the string returned
  sent,        \* Push/Pop: number of chunks whose round is complete
  wire,        \* the lines written to the channel, in order
  replies,     \* history: what the stream delivered to each Read, in order
  nt,          \* Pop: nt, the running total
  lang,        \* Push: the Lang of the request
  out          \* what the function returned: error and values

progVars == <<maxSize, timeout, items, curSize, mu, nextId, closeCalls,
              pc, newc, held, err, res, result, waited>>
histVars == <<log, errRestored, evictSeen, lastEvict, afterEvict, soloEmpty>>
closeVars == <<closed, cpc, closeErr, idleAtClose, drained, closeRaced>>
chanVars == <<conn, chpc, maxRunes, returned, chErr, lastRead, lastOp, wrote>>
cmdVars == <<text, budget, op, ipc, rs, idx, ss, esc, sent, wire, replies, nt,
             lang, out>>
vars == <<progVars, histVars, closeVars, chanVars, cmdVars>>

\* --------------------------------------------------------------- helpers
Range(s) == {s[i] : i \in 1..Len(s)}

Count(s, e) == Cardinality({i \in 1..Len(s) : s[i] = e})

Quiescent(c) == pc[c] \in {"idle", "done"}

NoResult == [err |-> Nil, res |-> NoRes]

\* the goroutine that calls Pool.Close, as an owner of the mutex
Closer == NumCallers + 1

\* Pool.Close has not returned an error
NoCloseErr == <<Nil, NoChan>>

\* an error value of the channel layer: its kind and, for errors.New(text),
\* the text
E(kind, msg) == [kind |-> kind, msg |-> msg]

NilErr == E(Nil, <<>>)

\* nothing has been read yet
NoRead == [io |-> Nil, line |-> <<>>]

\* pool.New: option normalisation
NewSize(size) == IF size <= 0 THEN 1 ELSE size

NewTimeout(t) == IF t <= 0 THEN DefaultTimeout ELSE t

\* faulty variant of NoneIdle: one idle channel is not enough
NoneIdleBelowTwo(q) == Len(q) < 2

\* next: `if len(p.items) < 1`
NoneIdle(q) == Len(q) < 1

\* faulty variant of AtCapacity: `>` for `>=`
AtCapacityOffByOne(cur, max) == cur > max

\* new: `if p.curSize >= p.maxSize { return nil }`
AtCapacity(cur, max) == cur >= max

\* faulty variants of IsFatal: never evict / evict on any error
IsFatalNever(e) == FALSE

IsFatalAnyError(e) == e # Nil

\* Exec/Query: `if err == io.EOF`
IsFatal(e) == e = EOF

\* faulty variant of TimerFired: fires one tick early
TimerFiredEarly(w, t) == w + 1 >= t

\* next: the time.After(p.timeout) case of the select is ready
TimerFired(w, t) == w >= t

\* a send on the buffered channel p.items proceeds
CanSend(q, cap) == Len(q) < cap

\* faulty variant of ItemsAfterRecv: the channel is handed out but stays queued
ItemsAfterPeek(q) == q

\* next: what `<-p.items` leaves in the queue
ItemsAfterRecv(q) == Tail(q)

\* the bytes a request text is made of: the letter n, the three characters
\* Escape rewrites, the two bytes C3 A9 that encode U+00E9, and FF, a byte that
\* occurs in no UTF-8 encoding
TextBytes == {"n", "\\", "\n", "\"", "C3", "A9", "FF"}

RECURSIVE SeqsUpTo(_, _)
SeqsUpTo(S, n) ==
  IF n = 0 THEN {<<>>}
  ELSE LET shorter == SeqsUpTo(S, n - 1)
       IN shorter \cup {Append(t, b) : t \in shorter, b \in S}

\* the texts a caller passes
Texts == SeqsUpTo(TextBytes, MaxTextLen)

\* the rune budgets a ready channel can have (0: see parseMaxRunes)
Budgets == 0..MaxBudget

\* no command has returned
NoOut == [err |-> NilErr, n |-> 0, info |-> <<>>, done |-> FALSE]

\* no call of the command layer has begun
NoCommand ==
  /\ op = "none"
  /\ ipc = "call"
  /\ rs = <<>>
  /\ idx = 0
  /\ ss = <<>>
  /\ esc = <<>>
  /\ sent = 0
  /\ wire = <<>>
  /\ replies = <<>>
  /\ nt = 0
  /\ lang = <<>>
  /\ out = NoOut

\* a new pool, nothing dialled
NewPool ==
  /\ \E size \in SizeOpts : maxSize = NewSize(size)
  /\ \E t \in TimeoutOpts : timeout = NewTimeout(t)
  /\ items = <<>>
  /\ curSize = 0
  /\ mu = NoOwner
  /\ nextId = 1
  /\ closeCalls = [ch \in ChanIds |-> 0]
  /\ pc = [c \in Callers |-> "idle"]
  /\ newc = [c \in Callers |-> NoChan]
  /\ held = [c \in Callers |-> NoChan]
  /\ err = [c \in Callers |-> Nil]
  /\ res = [c \in Callers |-> NoRes]
  /\ result = [c \in Callers |-> NoResult]
  /\ waited = [c \in Callers |-> 0]
  /\ log = [c \in Callers |-> <<>>]
  /\ errRestored = NoChan
  /\ evictSeen = [c \in Callers |-> FALSE]
  /\ lastEvict = FALSE
  /\ afterEvict = [c \in Callers |-> FALSE]
  /\ soloEmpty = [c \in Callers |-> FALSE]
  /\ closed = FALSE
  /\ cpc = "idle"
  /\ closeErr = NoCloseErr
  /\ idleAtClose = <<>>
  /\ drained = <<>>
  /\ closeRaced = FALSE
  /\ conn = "none"
  /\ chpc = "dial"
  /\ maxRunes = 0
  /\ returned = "none"
  /\ chErr = NilErr
  /\ lastRead = NoRead
  /\ lastOp = "none"
  /\ wrote = FALSE

Init ==
  /\ NewPool
  /\ text = <<>>
  /\ budget = 0
  /\ NoCommand

\* a request with some text, to be served by a channel with some rune budget
CmdInit ==
  /\ NewPool
  /\ text \in Texts
  /\ budget \in Budgets
  /\ NoCommand

Logged(c, e) == log' = [log EXCEPT ![c] = Append(@, e)]

\* Exec/Query return v to the caller; the locals of the call are gone.
Return(c, v) ==
  /\ result' = [result EXCEPT ![c] = v]
  /\ pc' = [pc EXCEPT ![c] = "done"]
  /\ newc' = [newc EXCEPT ![c] = NoChan]
  /\ held' = [held EXCEPT ![c] = NoChan]
  /\ err' = [err EXCEPT ![c] = Nil]
  /\ res' = [res EXCEPT ![c] = NoRes]
  /\ waited' = [waited EXCEPT ![c] = 0]
  /\ afterEvict' = [afterEvict EXCEPT ![c] = FALSE]
  /\ soloEmpty' = [soloEmpty EXCEPT ![c] = FALSE]

\* A goroutine calls p.Exec(fn) or p.Query(fn).
Call(c) ==
  /\ Quiescent(c)
  /\ pc' = [pc EXCEPT ![c] = "next"]
  /\ result' = [result EXCEPT ![c] = NoResult]
  /\ log' = [log EXCEPT ![c] = <<>>]
  /\ afterEvict' = [afterEvict EXCEPT ![c] = lastEvict]
  /\ lastEvict' = FALSE
  /\ soloEmpty' = [d \in Callers |->
        IF d = c
        THEN /\ \A o \in Callers \ {c} : Quiescent(o)
             /\ items = <<>>
        ELSE FALSE]
  /\ UNCHANGED <<maxSize, timeout, items, curSize, mu, nextId, closeCalls,
                 newc, held, err, res, waited, errRestored, evictSeen>>
  /\ UNCHANGED <<closeVars, chanVars, cmdVars>>

\* next: `if len(p.items) < 1 { p.new() }`, read without the lock
NextLen(c) ==
  /\ pc[c] = "next"
  /\ pc' = [pc EXCEPT ![c] = IF NoneIdle(items) THEN "new" ELSE "select"]
  /\ UNCHANGED <<maxSize, timeout, items, curSize, mu, nextId, closeCalls,
                 newc, held, err, res, result, waited, histVars>>
  /\ UNCHANGED <<closeVars, chanVars, cmdVars>>

\* new: p.mu.Lock(), `if p.curSize >= p.maxSize { return nil }`
NewFull(c) ==
  /\ pc[c] = "new"
  /\ mu = NoOwner
  /\ AtCapacity(curSize, maxSize)
  /\ pc' = [pc EXCEPT ![c] = "select"]
  /\ UNCHANGED <<maxSize, timeout, items, curSize, mu, nextId, closeCalls,
                 newc, held, err, res, result, waited, histVars>>
  /\ UNCHANGED <<closeVars, chanVars, cmdVars>>

\* new: p.mu.Lock(), below capacity, `c, err := p.newFn()` succeeds
NewMake(c) ==
  /\ pc[c] = "new"
  /\ mu = NoOwner
  /\ ~AtCapacity(curSize, maxSize)
  /\ nextId <= MaxChannels
  /\ mu' = c
  /\ newc' = [newc EXCEPT ![c] = nextId]
  /\ nextId' = nextId + 1
  /\ pc' = [pc EXCEPT ![c] = "new_send"]
  /\ Logged(c, "factory")
  /\ UNCHANGED <<maxSize, timeout, items, curSize, closeCalls, held, err, res,
                 result, waited, errRestored, evictSeen, lastEvict, afterEvict,
                 soloEmpty>>
  /\ UNCHANGED <<closeVars, chanVars, cmdVars>>

\* faulty variant of NewFail: curSize is incremented before the error check
NewFailCounted(c) ==
  /\ pc[c] = "new"
  /\ mu = NoOwner
  /\ ~AtCapacity(curSize, maxSize)
  /\ curSize' = curSize + 1
  /\ Return(c, [err |-> ErrNew, res |-> NoRes])
  /\ Logged(c, "factoryFailed")
  /\ UNCHANGED <<maxSize, timeout, items, mu, nextId, closeCalls,
                 errRestored, evictSeen, lastEvict>>
  /\ UNCHANGED <<closeVars, chanVars, cmdVars>>

\* new: p.mu.Lock(), below capacity, p.newFn() fails: new returns err
\* (deferred Unlock), next returns err, Exec/Query return err
NewFail(c) ==
  /\ pc[c] = "new"
  /\ mu = NoOwner
  /\ ~AtCapacity(curSize, maxSize)
  /\ Return(c, [err |-> ErrNew, res |-> NoRes])
  /\ Logged(c, "factoryFailed")
  /\ UNCHANGED <<maxSize, timeout, items, curSize, mu, nextId, closeCalls,
                 errRestored, evictSeen, lastEvict>>
  /\ UNCHANGED <<closeVars, chanVars, cmdVars>>

\* new: p.items <- c
NewSend(c) ==
  /\ pc[c] = "new_send"
  /\ ~closed
  /\ mu = c
  /\ CanSend(items, maxSize)
  /\ items' = Append(items, newc[c])
  /\ pc' = [pc EXCEPT ![c] = "new_inc"]
  /\ Logged(c, "send")
  /\ UNCHANGED <<maxSize, timeout, curSize, mu, nextId, closeCalls, newc, held,
                 err, res, result, waited, errRestored, evictSeen, lastEvict,
                 afterEvict, soloEmpty>>
  /\ UNCHANGED <<closeVars, chanVars, cmdVars>>

\* faulty variant of NewInc: new returns without unlocking
NewIncKeepsLock(c) ==
  /\ pc[c] = "new_inc"
  /\ mu = c
  /\ curSize' = curSize + 1
  /\ mu' = mu
  /\ pc' = [pc EXCEPT ![c] = "select"]
  /\ Logged(c, "inc")
  /\ UNCHANGED <<maxSize, timeout, items, nextId, closeCalls, newc, held,
                 err, res, result, waited, errRestored, evictSeen, lastEvict,
                 afterEvict, soloEmpty>>
  /\ UNCHANGED <<closeVars, chanVars, cmdVars>>

\* faulty variant of NewInc: `p.curSize++` is missing
NewIncSkips(c) ==
  /\ pc[c] = "new_inc"
  /\ mu = c
  /\ curSize' = curSize
  /\ mu' = NoOwner
  /\ pc' = [pc EXCEPT ![c] = "select"]
  /\ Logged(c, "inc")
  /\ UNCHANGED <<maxSize, timeout, items, nextId, closeCalls, newc, held,
                 err, res, result, waited, errRestored, evictSeen, lastEvict,
                 afterEvict, soloEmpty>>
  /\ UNCHANGED <<closeVars, chanVars, cmdVars>>

\* new: p.curSize++ ; return nil (deferred Unlock)
NewInc(c) ==
  /\ pc[c] = "new_inc"
  /\ mu = c
  /\ curSize' = curSize + 1
  /\ mu' = NoOwner
  /\ pc' = [pc EXCEPT ![c] = "select"]
  /\ Logged(c, "inc")
  /\ UNCHANGED <<maxSize, timeout, items, nextId, closeCalls, newc, held,
                 err, res, result, waited, errRestored, evictSeen, lastEvict,
                 afterEvict, soloEmpty>>
  /\ UNCHANGED <<closeVars, chanVars, cmdVars>>

\* next: `case c := <-p.items: return c, nil`; Exec/Query then call fn(c)
Recv(c) ==
  /\ pc[c] = "select"
  /\ items # <<>>
  /\ held' = [held EXCEPT ![c] = Head(items)]
  /\ items' = ItemsAfterRecv(items)
  /\ pc' = [pc EXCEPT ![c] = "fn"]
  /\ waited' = [waited EXCEPT ![c] = 0]
  /\ evictSeen' = [evictSeen EXCEPT ![c] = FALSE]
  /\ Logged(c, "recv")
  /\ UNCHANGED <<maxSize, timeout, curSize, mu, nextId, closeCalls, newc,
                 err, res, result, errRestored, lastEvict, afterEvict, soloEmpty>>
  /\ UNCHANGED <<closeVars, chanVars, cmdVars>>

\* faulty variant of Timeout: the timed-out caller decrements curSize
TimeoutGivesUpSlot(c) ==
  /\ pc[c] = "select"
  /\ TimerFired(waited[c], timeout)
  /\ curSize > 0
  /\ curSize' = curSize - 1
  /\ Return(c, [err |-> ErrTimeout, res |-> NoRes])
  /\ evictSeen' = [evictSeen EXCEPT ![c] = FALSE]
  /\ Logged(c, "timeout")
  /\ UNCHANGED <<maxSize, timeout, items, mu, nextId, closeCalls,
                 errRestored, lastEvict>>
  /\ UNCHANGED <<closeVars, chanVars, cmdVars>>

\* next: `case <-time.After(p.timeout): return nil, ErrTimeout`
Timeout(c) ==
  /\ pc[c] = "select"
  /\ TimerFired(waited[c], timeout)
  /\ Return(c, [err |-> ErrTimeout, res |-> NoRes])
  /\ evictSeen' = [evictSeen EXCEPT ![c] = FALSE]
  /\ Logged(c, "timeout")
  /\ UNCHANGED <<maxSize, timeout, items, curSize, mu, nextId, closeCalls,
                 errRestored, lastEvict>>
  /\ UNCHANGED <<closeVars, chanVars, cmdVars>>

\* Thirty seconds pass for every caller parked in the select.
Tick ==
  /\ \E c \in Callers : pc[c] = "select"
  /\ ~closed
  /\ items = <<>>
  /\ \A c \in Callers : pc[c] = "select" => ~TimerFired(waited[c], timeout)
  /\ waited' = [c \in Callers |-> IF pc[c] = "select" THEN waited[c] + 1 ELSE waited[c]]
  /\ UNCHANGED <<maxSize, timeout, items, curSize, mu, nextId, closeCalls, pc,
                 newc, held, err, res, result, histVars>>
  /\ UNCHANGED <<closeVars, chanVars, cmdVars>>

\* `err = fn(c)` / `res, err := fn(c)` returns, then `if err == io.EOF`
FnReturn(c, e, r) ==
  /\ pc[c] = "fn"
  /\ err' = [err EXCEPT ![c] = e]
  /\ res' = [res EXCEPT ![c] = r]
  /\ pc' = [pc EXCEPT ![c] = IF IsFatal(e) THEN "remove" ELSE "restore"]
  /\ newc' = [newc EXCEPT ![c] = NoChan]
  /\ log' = [log EXCEPT ![c] = @ \o <<"op", e>>]
  /\ errRestored' = IF errRestored = held[c] THEN NoChan ELSE errRestored
  /\ afterEvict' = [afterEvict EXCEPT ![c] = FALSE]
  /\ soloEmpty' = [soloEmpty EXCEPT ![c] = FALSE]
  /\ UNCHANGED <<maxSize, timeout, items, curSize, mu, nextId, closeCalls,
                 held, result, waited, evictSeen, lastEvict>>
  /\ UNCHANGED <<closeVars, chanVars, cmdVars>>

\* restore: p.items <- c ; Exec/Query return err
Restore(c) ==
  /\ pc[c] = "restore"
  /\ ~closed
  /\ CanSend(items, maxSize)
  /\ items' = Append(items, held[c])
  /\ Return(c, [err |-> err[c], res |-> res[c]])
  /\ errRestored' = IF err[c] # Nil THEN held[c] ELSE errRestored
  /\ Logged(c, "restore")
  /\ UNCHANGED <<maxSize, timeout, curSize, mu, nextId, closeCalls, evictSeen,
                 lastEvict>>
  /\ UNCHANGED <<closeVars, chanVars, cmdVars>>

\* remove: p.mu.Lock(), c.Close(); Close's return value is dropped
RemoveClose(c, closeOk) ==
  /\ pc[c] = "remove"
  /\ held[c] # NoChan
  /\ mu = NoOwner
  /\ closeOk \in BOOLEAN
  /\ mu' = c
  /\ closeCalls' = [closeCalls EXCEPT ![held[c]] = @ + 1]
  /\ pc' = [pc EXCEPT ![c] = "remove_dec"]
  /\ Logged(c, IF closeOk THEN "close" ELSE "closeFailed")
  /\ UNCHANGED <<maxSize, timeout, items, curSize, nextId, newc, held,
                 err, res, result, waited, errRestored, evictSeen, lastEvict,
                 afterEvict, soloEmpty>>
  /\ UNCHANGED <<closeVars, chanVars, cmdVars>>

\* faulty variant of RemoveDec: `p.curSize--` is missing
RemoveDecForgets(c) ==
  /\ pc[c] = "remove_dec"
  /\ mu = c
  /\ mu' = NoOwner
  /\ Return(c, [err |-> err[c], res |-> res[c]])
  /\ Logged(c, "dec")
  /\ evictSeen' = [d \in Callers |->
        IF pc[d] = "select" /\ items = <<>> /\ ~TimerFired(waited[d], timeout)
        THEN TRUE ELSE evictSeen[d]]
  /\ lastEvict' = TRUE
  /\ UNCHANGED <<maxSize, timeout, items, curSize, nextId, closeCalls, errRestored>>
  /\ UNCHANGED <<closeVars, chanVars, cmdVars>>

\* remove: p.curSize-- (deferred Unlock); Exec/Query return err
RemoveDec(c) ==
  /\ pc[c] = "remove_dec"
  /\ mu = c
  /\ curSize' = curSize - 1
  /\ mu' = NoOwner
  /\ Return(c, [err |-> err[c], res |-> res[c]])
  /\ Logged(c, "dec")
  /\ evictSeen' = [d \in Callers |->
        IF pc[d] = "select" /\ items = <<>> /\ ~TimerFired(waited[d], timeout)
        THEN TRUE ELSE evictSeen[d]]
  /\ lastEvict' = TRUE
  /\ UNCHANGED <<maxSize, timeout, items, nextId, closeCalls, errRestored>>
  /\ UNCHANGED <<closeVars, chanVars, cmdVars>>

Next ==
  \/ \E c \in Callers : Call(c)
  \/ \E c \in Callers : NextLen(c)
  \/ \E c \in Callers : NewFull(c)
  \/ \E c \in Callers : NewMake(c)
  \/ \E c \in Callers : NewFail(c)
  \/ \E c \in Callers : NewSend(c)
  \/ \E c \in Callers : NewInc(c)
  \/ \E c \in Callers : Recv(c)
  \/ \E c \in Callers : Timeout(c)
  \/ Tick
  \/ \E c \in Callers, o \in Outcomes : FnReturn(c, o[1], o[2])
  \/ \E c \in Callers : Restore(c)
  \/ \E c \in Callers, closeOk \in BOOLEAN : RemoveClose(c, closeOk)
  \/ \E c \in Callers : RemoveDec(c)

Spec == Init /\ [][Next]_vars

\* the steps of a call that the pool itself takes (fn returning is not one)
PoolStep(c) ==
  \/ NextLen(c)
  \/ NewFull(c)
  \/ NewMake(c)
  \/ NewFail(c)
  \/ NewSend(c)
  \/ NewInc(c)
  \/ Recv(c)
  \/ Timeout(c)
  \/ Restore(c)
  \/ \E closeOk \in BOOLEAN : RemoveClose(c, closeOk)
  \/ RemoveDec(c)

\* the Go scheduler runs every runnable goroutine
FairSpec == Spec /\ \A c \in Callers : WF_vars(PoolStep(c))

\* FairSpec with time passing and every operation returning: fn terminates,
\* the timer of a caller parked in the select keeps running, and a caller
\* parked in the select is not passed over for ever when channels are sent
\* (the runtime hands a sent value to a parked receiver)
LiveSpec ==
  /\ FairSpec
  /\ WF_vars(Tick)
  /\ \A c \in Callers : WF_vars(\E o \in Outcomes : FnReturn(c, o[1], o[2]))
  /\ \A c \in Callers : SF_vars(Recv(c))

\* ------------------------------------------------------------ Pool.Close
\* A goroutine calls p.Exec / p.Query; the client starts no call once it has
\* called Close.
CallBeforeClose(c) ==
  /\ cpc = "idle"
  /\ Call(c)

\* next: `case c := <-p.items` on the closed, empty queue yields nil at once;
\* Exec/Query then call fn(nil)
RecvClosed(c) ==
  /\ pc[c] = "select"
  /\ closed
  /\ items = <<>>
  /\ pc' = [pc EXCEPT ![c] = "fn"]
  /\ waited' = [waited EXCEPT ![c] = 0]
  /\ evictSeen' = [evictSeen EXCEPT ![c] = FALSE]
  /\ Logged(c, "recvNil")
  /\ UNCHANGED <<maxSize, timeout, items, curSize, mu, nextId, closeCalls, newc,
                 held, err, res, result, errRestored, lastEvict, afterEvict,
                 soloEmpty>>
  /\ UNCHANGED <<closeVars, chanVars, cmdVars>>

\* restore: `p.items <- c` on the closed queue panics; the channel in hand
\* is dropped without Close
RestorePanic(c) ==
  /\ pc[c] = "restore"
  /\ closed
  /\ Return(c, [err |-> Panic, res |-> NoRes])
  /\ Logged(c, "panic")
  /\ UNCHANGED <<maxSize, timeout, items, curSize, mu, nextId, closeCalls,
                 errRestored, evictSeen, lastEvict>>
  /\ UNCHANGED <<closeVars, chanVars, cmdVars>>

\* new: `p.items <- c` on the closed queue panics (deferred Unlock runs)
NewSendPanic(c) ==
  /\ pc[c] = "new_send"
  /\ mu = c
  /\ closed
  /\ mu' = NoOwner
  /\ Return(c, [err |-> Panic, res |-> NoRes])
  /\ Logged(c, "panic")
  /\ UNCHANGED <<maxSize, timeout, items, curSize, nextId, closeCalls,
                 errRestored, evictSeen, lastEvict>>
  /\ UNCHANGED <<closeVars, chanVars, cmdVars>>

\* remove: p.mu.Lock(), c.Close() on the nil Channel panics (deferred Unlock)
RemoveNil(c) ==
  /\ pc[c] = "remove"
  /\ held[c] = NoChan
  /\ mu = NoOwner
  /\ Return(c, [err |-> Panic, res |-> NoRes])
  /\ Logged(c, "panic")
  /\ UNCHANGED <<maxSize, timeout, items, curSize, mu, nextId, closeCalls,
                 errRestored, evictSeen, lastEvict>>
  /\ UNCHANGED <<closeVars, chanVars, cmdVars>>

\* Close: p.mu.Lock(), close(p.items)
PoolCloseBegin ==
  /\ cpc = "idle"
  /\ mu = NoOwner
  /\ mu' = Closer
  /\ closed' = TRUE
  /\ cpc' = "drain"
  /\ idleAtClose' = items
  /\ closeRaced' = \E c \in Callers : pc[c] \in {"next", "select"}
  /\ UNCHANGED <<closeErr, drained>>
  /\ UNCHANGED <<maxSize, timeout, items, curSize, nextId, closeCalls,
                 pc, newc, held, err, res, result, waited, histVars, chanVars,
                 cmdVars>>

\* faulty variant of PoolCloseDrain: the channel is received but not closed
PoolCloseDrainSkips(closeOk) ==
  /\ cpc = "drain"
  /\ items # <<>>
  /\ items' = Tail(items)
  /\ drained' = Append(drained, Head(items))
  /\ UNCHANGED <<closed, cpc, closeErr, idleAtClose, closeRaced>>
  /\ UNCHANGED <<maxSize, timeout, curSize, mu, nextId, closeCalls,
                 pc, newc, held, err, res, result, waited, histVars, chanVars,
                 cmdVars>>

\* faulty variant of PoolCloseDrain: a failed Close does not end the loop
PoolCloseDrainGoesOn(closeOk) ==
  /\ cpc = "drain"
  /\ items # <<>>
  /\ items' = Tail(items)
  /\ closeCalls' = [closeCalls EXCEPT ![Head(items)] = @ + 1]
  /\ drained' = Append(drained, Head(items))
  /\ closeErr' = IF closeOk \/ closeErr # NoCloseErr THEN closeErr
                 ELSE <<ErrClose, Head(items)>>
  /\ UNCHANGED <<closed, cpc, idleAtClose, closeRaced>>
  /\ UNCHANGED <<maxSize, timeout, curSize, mu, nextId,
                 pc, newc, held, err, res, result, waited, histVars, chanVars,
                 cmdVars>>

\* Close: one round of `for c := range p.items`: receive c, c.Close(), and
\* `return err` (deferred Unlock) if it failed
PoolCloseDrain(closeOk) ==
  /\ cpc = "drain"
  /\ items # <<>>
  /\ items' = Tail(items)
  /\ closeCalls' = [closeCalls EXCEPT ![Head(items)] = @ + 1]
  /\ drained' = Append(drained, Head(items))
  /\ IF closeOk
     THEN UNCHANGED <<cpc, closeErr, mu>>
     ELSE /\ closeErr' = <<ErrClose, Head(items)>>
          /\ cpc' = "done"
          /\ mu' = NoOwner
  /\ UNCHANGED <<closed, idleAtClose, closeRaced>>
  /\ UNCHANGED <<maxSize, timeout, curSize, nextId,
                 pc, newc, held, err, res, result, waited, histVars, chanVars,
                 cmdVars>>

\* Close: the range loop ends on the closed, empty queue; `return nil`
\* (deferred Unlock)
PoolCloseEnd ==
  /\ cpc = "drain"
  /\ items = <<>>
  /\ cpc' = "done"
  /\ mu' = NoOwner
  /\ UNCHANGED <<closed, closeErr, idleAtClose, drained, closeRaced>>
  /\ UNCHANGED <<maxSize, timeout, items, curSize, nextId, closeCalls,
                 pc, newc, held, err, res, result, waited, histVars, chanVars,
                 cmdVars>>

NextClose ==
  \/ \E c \in Callers : CallBeforeClose(c)
  \/ \E c \in Callers : NextLen(c)
  \/ \E c \in Callers : NewFull(c)
  \/ \E c \in Callers : NewMake(c)
  \/ \E c \in Callers : NewFail(c)
  \/ \E c \in Callers : NewSend(c)
  \/ \E c \in Callers : NewInc(c)
  \/ \E c \in Callers : Recv(c)
  \/ \E c \in Callers : Timeout(c)
  \/ Tick
  \/ \E c \in Callers, o \in Outcomes : FnReturn(c, o[1], o[2])
  \/ \E c \in Callers : Restore(c)
  \/ \E c \in Callers, closeOk \in BOOLEAN : RemoveClose(c, closeOk)
  \/ \E c \in Callers : RemoveDec(c)
  \/ \E c \in Callers : RecvClosed(c)
  \/ \E c \in Callers : RestorePanic(c)
  \/ \E c \in Callers : NewSendPanic(c)
  \/ \E c \in Callers : RemoveNil(c)
  \/ PoolCloseBegin
  \/ \E closeOk \in BOOLEAN : PoolCloseDrain(closeOk)
  \/ PoolCloseEnd

SpecClose == Init /\ [][NextClose]_vars

\* --------------------------------------------------------------- channel
\* One channel, from newChannel to Close.  A line is a sequence of tokens: the
\* tags "ERR " and "buffer(" are one token each, every other token is one
\* character or one word.  What the stream delivers to a Read is a whole line
\* (up to and including "\n") or a failure of the stream.
ErrTag == "ERR "
BufTag == "buffer("
RParen == ")"
Space == {" ", "\t", "\r", "\n"}
DigitChars == <<"0", "1", "2", "3", "4", "5", "6", "7", "8", "9">>
Digits == Range(DigitChars)

\* width of int in the model (bits), standing for the 64 bits of Go's int
IntBits == 16
IntMax == 2 ^ (IntBits - 1) - 1

\* error values of the channel layer
ErrInvalidResponse == "ErrInvalidResponse"
ErrRange == "strconv.NumError"   \* strconv.Atoi: value out of range
ErrDial == "dialErr"             \* DialTCP failed
ErrWrite == "writeErr"           \* conn.Write failed
ErrIO == "ioErr"                 \* the stream failed other than by ending
ErrConnClose == "connCloseErr"   \* conn.Close failed

\* the digit strings the server is made to announce
DigitSeqs ==
  { <<>>, <<"0">>, <<"7">>, <<"8">>, <<"0", "8">>, <<"4", "0">>, <<"9", "9">>,
    <<"2", "0", "0", "0", "0">>, <<"3", "2", "7", "6", "7">>,
    <<"9", "9", "9", "9", "9">> }

Eol == <<"\r", "\n">>

\* lines shaped like the STARTED line, well formed or not
StartedLines ==
  { pre \o tag \o ds \o rp \o trail \o Eol :
      pre \in {<<>>, <<"x", " ">>}, tag \in {<<>>, <<BufTag>>},
      ds \in DigitSeqs, rp \in {<<>>, <<RParen>>}, trail \in {<<>>, <<" ">>, <<"x">>} }
  \cup { <<"x", " ", BufTag, "x", RParen>> \o Eol,
         <<"x", BufTag, "7", RParen, BufTag, "8", RParen>> \o Eol }

\* ERR lines
ErrLines ==
  { <<ErrTag>> \o reason \o Eol :
      reason \in { <<"bad", " ", "password">>, <<" ", "x", " ">>, <<"x">>, <<>>,
                   <<"x", " ", BufTag, "8", RParen>> } }

ServerLines == StartedLines \cup ErrLines

\* what reader.ReadString('\n') can hand to a Read
ReadInputs ==
  {[io |-> e, line |-> <<>>] : e \in {EOF, ErrIO}}
    \cup {[io |-> Nil, line |-> l] : l \in ServerLines}

\* what it can hand to the Read of a command's response (PONG, ENDED quit)
ReplyInputs ==
  {[io |-> e, line |-> <<>>] : e \in {EOF, ErrIO}}
    \cup {[io |-> Nil, line |-> l] : l \in ErrLines \cup {<<"x", " ">> \o Eol}}

RECURSIVE TrimLeft(_)
TrimLeft(s) == IF s # <<>> /\ Head(s) \in Space THEN TrimLeft(Tail(s)) ELSE s

RECURSIVE TrimRight(_)
TrimRight(s) ==
  IF s # <<>> /\ s[Len(s)] \in Space
  THEN TrimRight(SubSeq(s, 1, Len(s) - 1))
  ELSE s

\* faulty variant of TrimSpace: nothing is trimmed
TrimSpaceNone(s) == s

\* strings.TrimSpace
TrimSpace(s) == TrimRight(TrimLeft(s))

\* strings.HasPrefix
HasPrefix(s, p) == Len(s) >= Len(p) /\ SubSeq(s, 1, Len(p)) = p

\* faulty variant of ChannelRead: a stream failure is wrapped in a new error
ChannelReadWraps(in) ==
  IF in.io # Nil
  THEN [s |-> <<>>, err |-> E(ErrIO, <<>>)]
  ELSE IF HasPrefix(in.line, <<ErrTag>>)
       THEN [s |-> <<>>, err |-> E(ErrProto, TrimSpace(Tail(in.line)))]
       ELSE [s |-> TrimSpace(in.line), err |-> NilErr]

\* channel.Read: the string and the error it returns
ChannelRead(in) ==
  IF in.io # Nil
  THEN [s |-> <<>>, err |-> E(in.io, <<>>)]
  ELSE IF HasPrefix(in.line, <<ErrTag>>)
       THEN [s |-> <<>>, err |-> E(ErrProto, TrimSpace(Tail(in.line)))]
       ELSE [s |-> TrimSpace(in.line), err |-> NilErr]

\* bufferRegex `^.+buffer\(([0-9]+)\)$`: the positions of "buffer(" at which
\* the expression matches msg
BufferMatches(msg) ==
  { i \in 2..(Len(msg) - 2) :
      /\ msg[i] = BufTag
      /\ msg[Len(msg)] = RParen
      /\ \A j \in (i + 1)..(Len(msg) - 1) : msg[j] \in Digits
      /\ \A j \in 1..Len(msg) : msg[j] # "\n" }

\* bufferRegex.FindStringSubmatch
FindStringSubmatch(msg) ==
  IF BufferMatches(msg) = {}
  THEN <<>>
  ELSE LET i == CHOOSE i \in BufferMatches(msg) : TRUE
       IN <<msg, SubSeq(msg, i + 1, Len(msg) - 1)>>

DigitVal(d) == (CHOOSE i \in 1..10 : DigitChars[i] = d) - 1

RECURSIVE DecVal(_)
DecVal(ds) ==
  IF ds = <<>> THEN 0
  ELSE DecVal(SubSeq(ds, 1, Len(ds) - 1)) * 10 + DigitVal(ds[Len(ds)])

\* strconv.Atoi on a string of digits
Atoi(ds) ==
  IF DecVal(ds) > IntMax
  THEN [n |-> IntMax, err |-> E(ErrRange, <<>>)]
  ELSE [n |-> DecVal(ds), err |-> NilErr]

\* faulty variant of parseMaxRunes: the buffer size is divided by 4 only
parseMaxRunesQuarter(msg) ==
  LET m == FindStringSubmatch(msg)
  IN IF Len(m) # 2
     THEN [n |-> 0, err |-> E(ErrInvalidResponse, <<>>)]
     ELSE IF Atoi(m[2]).err # NilErr
          THEN [n |-> 0, err |-> Atoi(m[2]).err]
          ELSE [n |-> Atoi(m[2]).n \div 4, err |-> NilErr]

\* parseMaxRunes
parseMaxRunes(msg) ==
  LET m == FindStringSubmatch(msg)
  IN IF Len(m) # 2
     THEN [n |-> 0, err |-> E(ErrInvalidResponse, <<>>)]
     ELSE IF Atoi(m[2]).err # NilErr
          THEN [n |-> 0, err |-> Atoi(m[2]).err]
          ELSE [n |-> (Atoi(m[2]).n \div 2) \div 4, err |-> NilErr]

poolVars == <<progVars, histVars, closeVars>>

\* faulty variant of HandshakeFail: the connection is left open
HandshakeFailLeaks(e) ==
  /\ chErr' = e
  /\ returned' = "nil"
  /\ chpc' = "failed"
  /\ UNCHANGED <<conn, maxRunes>>

\* newChannel: `return nil, close(err)`, close being conn.Close() then err
HandshakeFail(e) ==
  /\ conn' = "closed"
  /\ chErr' = e
  /\ returned' = "nil"
  /\ chpc' = "failed"
  /\ UNCHANGED maxRunes

\* newChannel: `conn, err := DialTCP(o.Addr)`
Dial(ok) ==
  /\ chpc = "dial"
  /\ lastOp' = "dial"
  /\ IF ok
     THEN /\ conn' = "open"
          /\ chpc' = "start"
          /\ UNCHANGED <<chErr, returned>>
     ELSE /\ chErr' = E(ErrDial, <<>>)
          /\ returned' = "nil"
          /\ chpc' = "failed"
          /\ UNCHANGED conn
  /\ UNCHANGED <<maxRunes, lastRead, wrote, poolVars, cmdVars>>

\* newChannel: `err = c.Write("START ...")`
WriteStart(ok) ==
  /\ chpc = "start"
  /\ lastOp' = "start"
  /\ wrote' = ok
  /\ IF ok
     THEN /\ chpc' = "read1"
          /\ UNCHANGED <<conn, chErr, returned, maxRunes>>
     ELSE HandshakeFail(E(ErrWrite, <<>>))
  /\ UNCHANGED <<lastRead, poolVars, cmdVars>>

\* newChannel: `_, err = c.Read()`, the CONNECTED line
ReadConnected(in) ==
  /\ chpc = "read1"
  /\ lastOp' = "read1"
  /\ lastRead' = in
  /\ IF ChannelRead(in).err = NilErr
     THEN /\ chpc' = "read2"
          /\ UNCHANGED <<conn, chErr, returned, maxRunes>>
     ELSE HandshakeFail(ChannelRead(in).err)
  /\ UNCHANGED <<wrote, poolVars, cmdVars>>

\* newChannel: `res, err := c.Read()`, `mr, err := parseMaxRunes(res)`,
\* `c.maxRunes = mr`, `return c, nil`
ReadStarted(in) ==
  /\ chpc = "read2"
  /\ lastOp' = "read2"
  /\ lastRead' = in
  /\ IF ChannelRead(in).err # NilErr
     THEN HandshakeFail(ChannelRead(in).err)
     ELSE IF parseMaxRunes(ChannelRead(in).s).err # NilErr
          THEN HandshakeFail(parseMaxRunes(ChannelRead(in).s).err)
          ELSE /\ maxRunes' = parseMaxRunes(ChannelRead(in).s).n
               /\ returned' = "channel"
               /\ chpc' = "ready"
               /\ UNCHANGED <<conn, chErr>>
  /\ UNCHANGED <<wrote, poolVars, cmdVars>>

\* the error client.Ping's operation returns
PingErr(ok, in) == IF ok THEN ChannelRead(in).err ELSE E(ErrWrite, <<>>)

\* client.Ping through Pool.Exec: Write("PING"), Read, then the pool restores
\* the channel or, `if err == io.EOF`, goes on to remove it
Ping(ok, in) ==
  /\ chpc = "ready"
  /\ lastOp' = "Ping"
  /\ wrote' = ok
  /\ lastRead' = IF ok THEN in ELSE lastRead
  /\ chErr' = PingErr(ok, in)
  /\ chpc' = IF IsFatal(PingErr(ok, in).kind) THEN "remove" ELSE "ready"
  /\ UNCHANGED <<conn, maxRunes, returned, poolVars, cmdVars>>

\* channel.Close, called by Pool.remove on the evicted channel or by
\* Pool.Close on the idle one: Write("QUIT"), Read, conn.Close().  The stream
\* of an evicted channel has ended: it delivers no line any more, a Read of
\* it fails again.
ChannelClose(ok, in, closeOk) ==
  /\ chpc \in {"ready", "remove"}
  /\ chpc = "remove" => in.io # Nil
  /\ lastOp' = "Close"
  /\ wrote' = ok
  /\ chpc' = "ended"
  /\ IF ~ok
     THEN /\ chErr' = E(ErrWrite, <<>>)
          /\ UNCHANGED <<conn, lastRead>>
     ELSE /\ lastRead' = in
          /\ IF ChannelRead(in).err # NilErr
             THEN /\ chErr' = ChannelRead(in).err
                  /\ UNCHANGED conn
             ELSE /\ conn' = "closed"
                  /\ chErr' = IF closeOk THEN NilErr ELSE E(ErrConnClose, <<>>)
  /\ UNCHANGED <<maxRunes, returned, poolVars, cmdVars>>

ChanNext ==
  \/ \E ok \in BOOLEAN : Dial(ok)
  \/ \E ok \in BOOLEAN : WriteStart(ok)
  \/ \E in \in ReadInputs : ReadConnected(in)
  \/ \E in \in ReadInputs : ReadStarted(in)
  \/ \E ok \in BOOLEAN, in \in ReplyInputs : Ping(ok, in)
  \/ \E ok \in BOOLEAN, in \in ReplyInputs, closeOk \in BOOLEAN :
        ChannelClose(ok, in, closeOk)

ChanSpec == Init /\ [][ChanNext]_vars

\* -------------------------------------------------------- text and commands
\* One call of channel.Split, channel.Escape or of a command of the ingest
\* and control clients, on a channel that is ready.  A text is a sequence of
\* bytes; a rune is named by its character or, outside ASCII, by its code
\* point.
Ascii == {"n", "\\", "\n", "\""}

\* []rune(s): the runes of a string; a byte that begins no well-formed
\* encoding becomes U+FFFD and the decoding resumes at the next byte
RECURSIVE Runes(_)
Runes(b) ==
  IF b = <<>> THEN <<>>
  ELSE IF b[1] \in Ascii THEN <<b[1]>> \o Runes(Tail(b))
  ELSE IF Len(b) >= 2 /\ b[1] = "C3" /\ b[2] = "A9"
       THEN <<"U+00E9">> \o Runes(SubSeq(b, 3, Len(b)))
  ELSE IF Len(b) >= 3 /\ b[1] = "EF" /\ b[2] = "BF" /\ b[3] = "BD"
       THEN <<"U+FFFD">> \o Runes(SubSeq(b, 4, Len(b)))
  ELSE <<"U+FFFD">> \o Runes(Tail(b))

\* the UTF-8 encoding of one rune
RuneBytes(r) ==
  IF r = "U+00E9" THEN <<"C3", "A9">>
  ELSE IF r = "U+FFFD" THEN <<"EF", "BF", "BD">>
  ELSE <<r>>

\* string(rs[i:nn]): the encoding of a sequence of runes
RECURSIVE String(_)
String(r) == IF r = <<>> THEN <<>> ELSE RuneBytes(Head(r)) \o String(Tail(r))

\* faulty variant of ChunkEnd: one rune too many
ChunkEndOffByOne(i, b, n) == IF i + b + 1 > n THEN n ELSE i + b + 1

\* Split: nn, the end of the chunk that starts at rune i
ChunkEnd(i, b, n) == IF i + b > n THEN n ELSE i + b

\* Split: `rs := []rune(s)`, where the loop starts
BeginSplit ==
  /\ rs' = Runes(text)
  /\ idx' = 0
  /\ ss' = <<>>
  /\ ipc' = "split"

\* what a call returns
Returned(e, n) == [err |-> e, n |-> n, info |-> <<>>, done |-> TRUE]

\* a caller calls channel.Split(text)
SplitCall ==
  /\ op = "none"
  /\ op' = "Split"
  /\ BeginSplit
  /\ UNCHANGED <<text, budget, esc, sent, wire, replies, nt, lang, out>>
  /\ UNCHANGED <<poolVars, chanVars>>

\* Split: one iteration of the loop.  With maxRunes = 0 the loop variable
\* does not advance; the model stops following the loop after MaxTextLen + 1
\* chunks, more than any text of the model has runes.
SplitStep ==
  /\ ipc = "split"
  /\ idx < Len(rs)
  /\ Len(ss) <= MaxTextLen
  /\ ss' = Append(ss, String(SubSeq(rs, idx + 1, ChunkEnd(idx, budget, Len(rs)))))
  /\ idx' = idx + budget
  /\ UNCHANGED <<text, budget, op, ipc, rs, esc, sent, wire, replies, nt, lang, out>>
  /\ UNCHANGED <<poolVars, chanVars>>

\* Split: the loop ends and ss is returned, to the caller or to the command
\* that ranges over it (no chunk: the command returns nil at once)
SplitReturn ==
  /\ ipc = "split"
  /\ idx >= Len(rs)
  /\ IF op = "Split" \/ ss = <<>>
     THEN ipc' = "done" /\ out' = Returned(NilErr, 0)
     ELSE ipc' = "write" /\ out' = out
  /\ UNCHANGED <<text, budget, op, rs, idx, ss, esc, sent, wire, replies, nt, lang>>
  /\ UNCHANGED <<poolVars, chanVars>>

\* strings.ReplaceAll(s, old, new) for a one-byte old
RECURSIVE ReplaceAll(_, _, _)
ReplaceAll(s, old, new) ==
  IF s = <<>> THEN <<>>
  ELSE (IF Head(s) = old THEN new ELSE <<Head(s)>>)
         \o ReplaceAll(Tail(s), old, new)

\* faulty variant of Escape: the backslashes of the text are left alone
EscapeNoBackslash(s) ==
  ReplaceAll(ReplaceAll(s,
      "\n", <<"\\", "n">>),
      "\"", <<"\\", "\"">>)

\* faulty variant of Escape: the backslashes are doubled last
EscapeBackslashLast(s) ==
  ReplaceAll(ReplaceAll(ReplaceAll(s,
      "\n", <<"\\", "n">>),
      "\"", <<"\\", "\"">>),
      "\\", <<"\\", "\\">>)

\* channel.Escape
Escape(s) ==
  ReplaceAll(ReplaceAll(ReplaceAll(s,
      "\\", <<"\\", "\\">>),
      "\n", <<"\\", "n">>),
      "\"", <<"\\", "\"">>)

\* a caller calls channel.Escape(text)
EscapeCall ==
  /\ op = "none"
  /\ op' = "Escape"
  /\ esc' = Escape(text)
  /\ ipc' = "done"
  /\ out' = Returned(NilErr, 0)
  /\ UNCHANGED <<text, budget, rs, idx, ss, sent, wire, replies, nt, lang>>
  /\ UNCHANGED <<poolVars, chanVars>>

\* error values of the command layer
ErrSyntax == "strconv.ErrSyntax"   \* strconv.Atoi: not a number
ErrInvalidInfoResponse == "ErrInvalidInfoResponse"

\* Options.Lang of a request: none or a language code
Langs == {<<>>, <<"eng">>}

\* appendLang
appendLang(msg, l) ==
  IF l # <<>> THEN msg \o <<" ", "LANG(">> \o l \o <<")">> ELSE msg

\* Push / Pop: the message built for the chunk t (fmt.Sprintf and appendLang)
CommandLine(o, t, l) ==
  IF o = "Push"
  THEN appendLang(<<"PUSH", " ", "collection", " ", "bucket", " ", "object",
                    " ", "\"">> \o t \o <<"\"">>, l)
  ELSE <<"POP", " ", "collection", " ", "bucket", " ", "object", " ", "\"">>
         \o t \o <<"\"">>

\* Count: the message of a request with k of collection, bucket, object set
CountLine(k) ==
  IF k = 3 THEN <<"COUNT", " ", "collection", " ", "bucket", " ", "object">>
  ELSE IF k = 2 THEN <<"COUNT", " ", "collection", " ", "bucket">>
  ELSE <<"COUNT", " ", "collection">>

\* strings.Split(s, sep) for a one-byte sep
RECURSIVE StringsSplit(_, _)
StringsSplit(s, sep) ==
  IF \A k \in 1..Len(s) : s[k] # sep
  THEN <<s>>
  ELSE LET at == CHOOSE k \in 1..Len(s) :
                   s[k] = sep /\ \A j \in 1..(k - 1) : s[j] # sep
       IN <<SubSeq(s, 1, at - 1)>> \o StringsSplit(SubSeq(s, at + 1, Len(s)), sep)

\* strconv.Atoi on any string
AtoiString(s) ==
  IF s = <<>> \/ \E k \in 1..Len(s) : s[k] \notin Digits
  THEN [n |-> 0, err |-> E(ErrSyntax, <<>>)]
  ELSE Atoi(s)

\* Pop, Count: `strconv.Atoi(strings.Split(res, " ")[1])`; indexing a slice
\* of one element panics
ParseCount(r) ==
  LET f == StringsSplit(r, " ")
  IN IF Len(f) < 2
     THEN [n |-> 0, err |-> E(Panic, <<>>)]
     ELSE AtoiString(f[2])

\* the responses the server is made to give to PUSH, POP and COUNT
CountReplies ==
  {[io |-> e, line |-> <<>>] : e \in {EOF, ErrIO}}
    \cup {[io |-> Nil, line |-> l \o Eol] :
            l \in { <<"OK">>, <<"RESULT", " ", "3">>, <<"RESULT", " ", "7">>,
                    <<"RESULT", " ", "invalid">>,
                    <<"RESULT", " ", "9", "9", "9", "9", "9">>,
                    <<ErrTag, "x">> } }

\* Push, Pop: c.Write(msg) for the next chunk
WriteChunk(ok) ==
  /\ op \in {"Push", "Pop"}
  /\ ipc = "write"
  /\ IF ok
     THEN /\ wire' = Append(wire, CommandLine(op, ss[sent + 1], lang) \o Eol)
          /\ ipc' = "read"
          /\ out' = out
     ELSE /\ wire' = wire
          /\ ipc' = "done"
          /\ out' = Returned(E(ErrWrite, <<>>), 0)
  /\ UNCHANGED <<text, budget, op, rs, idx, ss, esc, sent, replies, nt, lang>>
  /\ UNCHANGED <<poolVars, chanVars>>

\* a caller calls Ingest.Push with the text and a language
PushCall(l) ==
  /\ op = "none"
  /\ op' = "Push"
  /\ lang' = l
  /\ BeginSplit
  /\ UNCHANGED <<text, budget, esc, sent, wire, replies, nt, out>>
  /\ UNCHANGED <<poolVars, chanVars>>

\* Push: c.Read() for the chunk just written
PushRead(in) ==
  /\ op = "Push"
  /\ ipc = "read"
  /\ replies' = Append(replies, in)
  /\ IF ChannelRead(in).err # NilErr
     THEN /\ ipc' = "done"
          /\ out' = Returned(ChannelRead(in).err, 0)
          /\ sent' = sent
     ELSE /\ sent' = sent + 1
          /\ IF sent + 1 = Len(ss)
             THEN ipc' = "done" /\ out' = Returned(NilErr, 0)
             ELSE ipc' = "write" /\ out' = out
  /\ UNCHANGED <<text, budget, op, rs, idx, ss, esc, wire, nt, lang>>
  /\ UNCHANGED <<poolVars, chanVars>>

\* a caller calls Ingest.Pop with the text
PopCall ==
  /\ op = "none"
  /\ op' = "Pop"
  /\ BeginSplit
  /\ UNCHANGED <<text, budget, esc, sent, wire, replies, nt, lang, out>>
  /\ UNCHANGED <<poolVars, chanVars>>

\* faulty variant of PopRead: the count of the last chunk replaces the total
PopReadLastOnly(in) ==
  /\ op = "Pop"
  /\ ipc = "read"
  /\ replies' = Append(replies, in)
  /\ LET r == ChannelRead(in)
         p == ParseCount(r.s)
     IN IF r.err # NilErr
        THEN ipc' = "done" /\ out' = Returned(r.err, 0) /\ UNCHANGED <<sent, nt>>
        ELSE IF p.err # NilErr
        THEN ipc' = "done" /\ out' = Returned(p.err, 0) /\ UNCHANGED <<sent, nt>>
        ELSE /\ nt' = p.n
             /\ sent' = sent + 1
             /\ IF sent + 1 = Len(ss)
                THEN ipc' = "done" /\ out' = Returned(NilErr, p.n)
                ELSE ipc' = "write" /\ out' = out
  /\ UNCHANGED <<text, budget, op, rs, idx, ss, esc, wire, lang>>
  /\ UNCHANGED <<poolVars, chanVars>>

\* Pop: c.Read() for the chunk just written, and the count parsed from it
PopRead(in) ==
  /\ op = "Pop"
  /\ ipc = "read"
  /\ replies' = Append(replies, in)
  /\ LET r == ChannelRead(in)
         p == ParseCount(r.s)
     IN IF r.err # NilErr
        THEN ipc' = "done" /\ out' = Returned(r.err, 0) /\ UNCHANGED <<sent, nt>>
        ELSE IF p.err # NilErr
        THEN ipc' = "done" /\ out' = Returned(p.err, 0) /\ UNCHANGED <<sent, nt>>
        ELSE /\ nt' = nt + p.n
             /\ sent' = sent + 1
             /\ IF sent + 1 = Len(ss)
                THEN ipc' = "done" /\ out' = Returned(NilErr, nt + p.n)
                ELSE ipc' = "write" /\ out' = out
  /\ UNCHANGED <<text, budget, op, rs, idx, ss, esc, wire, lang>>
  /\ UNCHANGED <<poolVars, chanVars>>

\* a caller calls Ingest.Count: the message is written
CountCall(k, ok) ==
  /\ op = "none"
  /\ op' = "Count"
  /\ IF ok
     THEN wire' = <<CountLine(k) \o Eol>> /\ ipc' = "read" /\ out' = out
     ELSE wire' = wire /\ ipc' = "done" /\ out' = Returned(E(ErrWrite, <<>>), 0)
  /\ UNCHANGED <<text, budget, rs, idx, ss, esc, sent, replies, nt, lang>>
  /\ UNCHANGED <<poolVars, chanVars>>

\* Count: c.Read() and the count parsed from the response
CountRead(in) ==
  /\ op = "Count"
  /\ ipc = "read"
  /\ replies' = Append(replies, in)
  /\ ipc' = "done"
  /\ LET r == ChannelRead(in)
         p == ParseCount(r.s)
     IN IF r.err # NilErr
        THEN out' = Returned(r.err, 0)
        ELSE IF p.err # NilErr
        THEN out' = Returned(p.err, 0)
        ELSE out' = Returned(NilErr, p.n)
  /\ UNCHANGED <<text, budget, op, rs, idx, ss, esc, sent, wire, nt, lang>>
  /\ UNCHANGED <<poolVars, chanVars>>

\* infoRegexp: the eight fields of the INFO result, each `name\((\d+)\)`
InfoNames ==
  <<"uptime(", "clients_connected(", "commands_total(",
    "command_latency_best(", "command_latency_worst(", "kv_open_count(",
    "fst_open_count(", "fst_consolidate_count(">>

\* the number of digits s begins with
RECURSIVE LeadingDigits(_)
LeadingDigits(s) ==
  IF s = <<>> \/ s[1] \notin Digits THEN 0 ELSE 1 + LeadingDigits(Tail(s))

\* infoRegexp from field k on: whether s is ` name(digits)` for each of the
\* fields k..8 and nothing more, and the digits of each
RECURSIVE InfoFields(_, _)
InfoFields(s, k) ==
  IF k > Len(InfoNames)
  THEN [ok |-> s = <<>>, vals |-> <<>>]
  ELSE IF Len(s) < 4 \/ s[1] # " " \/ s[2] # InfoNames[k]
  THEN [ok |-> FALSE, vals |-> <<>>]
  ELSE LET n == LeadingDigits(SubSeq(s, 3, Len(s)))
       IN IF n = 0 \/ Len(s) < 3 + n \/ s[3 + n] # RParen
          THEN [ok |-> FALSE, vals |-> <<>>]
          ELSE LET more == InfoFields(SubSeq(s, 4 + n, Len(s)), k + 1)
               IN [ok |-> more.ok, vals |-> <<SubSeq(s, 3, 2 + n)>> \o more.vals]

\* infoRegexp.FindStringSubmatch
InfoSubmatch(s) ==
  IF s # <<>> /\ s[1] = "RESULT" /\ InfoFields(Tail(s), 1).ok
  THEN <<s>> \o InfoFields(Tail(s), 1).vals
  ELSE <<>>

\* faulty variant of InfoResult: a field that is no int is taken as IntMax
InfoResultLenient(r) ==
  LET strs == InfoSubmatch(r)
  IN IF Len(strs) # 9
     THEN [err |-> E(ErrInvalidInfoResponse, <<>>), ints |-> <<>>]
     ELSE [err |-> NilErr, ints |-> [k \in 1..8 |-> Atoi(strs[k + 1]).n]]

\* Info: what it makes of the response it has read
InfoResult(r) ==
  LET strs == InfoSubmatch(r)
  IN IF Len(strs) # 9
     THEN [err |-> E(ErrInvalidInfoResponse, <<>>), ints |-> <<>>]
     ELSE IF \E k \in 2..9 : Atoi(strs[k]).err # NilErr
     THEN [err |-> E(ErrInvalidInfoResponse, <<>>), ints |-> <<>>]
     ELSE [err |-> NilErr, ints |-> [k \in 1..8 |-> Atoi(strs[k + 1]).n]]

\* an INFO result line with the given field values
RECURSIVE InfoLineFrom(_, _)
InfoLineFrom(v, k) ==
  IF k > Len(v) THEN <<>>
  ELSE <<" ", InfoNames[k]>> \o v[k] \o <<RParen>> \o InfoLineFrom(v, k + 1)

InfoLine(v) == <<"RESULT">> \o InfoLineFrom(v, 1)

\* the values the server is made to put in the fields
InfoVals ==
  { [k \in 1..8 |-> <<"1">>],
    <<<<"1", "8">>, <<"2">>, <<"1">>, <<"3">>, <<"4">>, <<"5">>, <<"6">>, <<"7">>>>,
    [k \in 1..8 |-> IF k = 3 THEN <<"x">> ELSE <<"1">>],
    [k \in 1..8 |-> IF k = 8 THEN <<>> ELSE <<"1">>],
    [k \in 1..8 |-> IF k = 5 THEN <<"9", "9", "9", "9", "9">> ELSE <<"1">>],
    [k \in 1..7 |-> <<"1">>] }

\* the responses the server is made to give to INFO
InfoReplies ==
  {[io |-> e, line |-> <<>>] : e \in {EOF, ErrIO}}
    \cup {[io |-> Nil, line |-> l \o Eol] :
            l \in {InfoLine(v) : v \in InfoVals}
                    \cup { <<"INVALID">>, <<ErrTag, "INFO">>,
                           InfoLine([k \in 1..8 |-> <<"1">>]) \o <<" ", "x">> } }

\* a caller calls Control.Info: the message is written
InfoCall(ok) ==
  /\ op = "none"
  /\ op' = "Info"
  /\ IF ok
     THEN wire' = <<<<"INFO">> \o Eol>> /\ ipc' = "read" /\ out' = out
     ELSE wire' = wire /\ ipc' = "done" /\ out' = Returned(E(ErrWrite, <<>>), 0)
  /\ UNCHANGED <<text, budget, rs, idx, ss, esc, sent, replies, nt, lang>>
  /\ UNCHANGED <<poolVars, chanVars>>

\* Info: ch.Read() and the response parsed
InfoRead(in) ==
  /\ op = "Info"
  /\ ipc = "read"
  /\ replies' = Append(replies, in)
  /\ ipc' = "done"
  /\ LET r == ChannelRead(in)
     IN IF r.err # NilErr
        THEN out' = Returned(r.err, 0)
        ELSE out' = [Returned(InfoResult(r.s).err, 0)
                       EXCEPT !.info = InfoResult(r.s).ints]
  /\ UNCHANGED <<text, budget, op, rs, idx, ss, esc, sent, wire, nt, lang>>
  /\ UNCHANGED <<poolVars, chanVars>>

\* the server: it takes what was written line by line (ReadString('\n')), so
\* the number of lines it receives is the number of newlines written
RECURSIVE ServerReceived(_)
ServerReceived(w) ==
  IF w = <<>> THEN 0
  ELSE Count(Head(w), "\n") + ServerReceived(Tail(w))

\* the server answers each line it receives: PUSH with OK, POP and COUNT and
\* INFO with one RESULT line, a line it cannot make out with one ERR line
ServerSent(w) == ServerReceived(w)

CmdNext ==
  \/ SplitCall
  \/ SplitStep
  \/ SplitReturn
  \/ EscapeCall
  \/ \E l \in Langs : PushCall(l)
  \/ PopCall
  \/ \E ok \in BOOLEAN : WriteChunk(ok)
  \/ \E in \in CountReplies : PushRead(in)
  \/ \E in \in CountReplies : PopRead(in)
  \/ \E k \in 1..3, ok \in BOOLEAN : CountCall(k, ok)
  \/ \E in \in CountReplies : CountRead(in)
  \/ \E ok \in BOOLEAN : InfoCall(ok)
  \/ \E in \in InfoReplies : InfoRead(in)

CmdSpec == CmdInit /\ [][CmdNext]_vars

\* ------------------------------------------------------------ properties
Created(ch) == ch < nextId

\* created by the factory and Close not yet called on it
Live(ch) == Created(ch) /\ closeCalls[ch] = 0

LiveCount == Cardinality({ch \in ChanIds : Live(ch)})

\* callers that have ch in hand: its creator until `p.items <- c`, then the
\* caller that received it until it restores or removes it
Holders(ch) == {c \in Callers : \/ pc[c] = "new_send" /\ newc[c] = ch
                                \/ held[c] = ch}

Idle(ch) == ch \in Range(items)

Destroyed(ch) == closeCalls[ch] > 0

Blocked(c) == pc[c] = "select" /\ items = <<>>

\* C1: at most maxSize channels are live (created and not closed) and
\* curSize never exceeds maxSize, whatever the capacity and interleaving.
C1_Bounded ==
  /\ LiveCount <= maxSize
  /\ curSize <= maxSize
  /\ LiveCount <= curSize + 1

C1_Witness ==
  /\ maxSize = 2
  /\ LiveCount = 2
  /\ curSize = 2
  /\ \E c \in Callers : pc[c] = "fn"
  /\ \E ch \in ChanIds : Destroyed(ch)

\* C2: a channel is never given to two operations at once; every created
\* channel is exactly one of idle (once in the queue, in nobody's hand),
\* in the hand of exactly one caller, or destroyed.
C2_Exclusive ==
  /\ \A c, d \in Callers :
        (c # d /\ held[c] # NoChan) => held[c] # held[d]
  /\ \A ch \in ChanIds : Created(ch) =>
        \/ /\ Count(items, ch) = 1
           /\ Holders(ch) = {}
           /\ ~Destroyed(ch)
        \/ /\ Count(items, ch) = 0
           /\ Cardinality(Holders(ch)) = 1
           /\ ~Destroyed(ch)
        \/ /\ Count(items, ch) = 0
           /\ Destroyed(ch)
           /\ Holders(ch) \subseteq {c \in Callers : pc[c] = "remove_dec"}
  /\ \A ch \in ChanIds : ~Created(ch) =>
        Count(items, ch) = 0 /\ Holders(ch) = {} /\ ~Destroyed(ch)

C2_Witness ==
  \E c, d \in Callers :
    /\ c # d
    /\ pc[c] = "fn"
    /\ pc[d] = "fn"
    /\ held[c] # held[d]
    /\ \E ch \in ChanIds : Destroyed(ch)

\* the suffix of s that starts at its last n entries
LastN(s, n) == SubSeq(s, Len(s) - n + 1, Len(s))

OpRan(c) == Count(log[c], "op") > 0

\* the error fn returned in the current/last call of c
OpError(c) == log[c][(CHOOSE i \in 1..Len(log[c]) : log[c][i] = "op") + 1]

Closes(c) == Count(log[c], "close") + Count(log[c], "closeFailed")

\* C3: an operation returning io.EOF leads to exactly one Close on the
\* channel it was given and one decrement of curSize, the channel is not
\* put back in the queue, and the caller gets io.EOF whatever Close returned.
C3_EvictOnEOF ==
  /\ \A ch \in ChanIds : closeCalls[ch] <= 1 /\ (Destroyed(ch) => ~Idle(ch))
  /\ \A c \in Callers :
        /\ (pc[c] = "remove") =>
              /\ err[c] = EOF
              /\ ~Destroyed(held[c])
        /\ (pc[c] = "remove_dec") =>
              /\ err[c] = EOF
              /\ closeCalls[held[c]] = 1
              /\ Closes(c) = 1
              /\ Count(log[c], "dec") = 0
        /\ (pc[c] = "done" /\ OpRan(c) /\ OpError(c) = EOF) =>
              /\ result[c].err = EOF
              /\ LastN(log[c], 5) \in {<<"recv", "op", EOF, "close", "dec">>,
                                       <<"recv", "op", EOF, "closeFailed", "dec">>}
              /\ Closes(c) = 1
              /\ Count(log[c], "dec") = 1
              /\ Count(log[c], "restore") = 0

C3_Witness ==
  \E c \in Callers :
    /\ pc[c] = "done"
    /\ result[c].err = EOF
    /\ Count(log[c], "closeFailed") = 1
    /\ \E ch \in ChanIds : Destroyed(ch)

\* C4: an operation returning nil or an error other than io.EOF (a protocol
\* ERR included) leaves the channel unclosed and back in the queue with
\* curSize untouched, the caller gets that error unchanged, and the same
\* channel can be given to a later acquisition.
C4_RestoreOnError ==
  /\ \A c \in Callers :
        /\ (pc[c] = "restore") =>
              /\ err[c] # EOF
              /\ ~Destroyed(held[c])
        /\ (pc[c] = "done" /\ OpRan(c) /\ OpError(c) # EOF) =>
              /\ result[c].err = OpError(c)
              /\ LastN(log[c], 4) = <<"recv", "op", OpError(c), "restore">>
              /\ Closes(c) = 0
              /\ Count(log[c], "dec") = 0
  /\ errRestored # NoChan =>
        /\ ~Destroyed(errRestored)
        /\ \/ Idle(errRestored)
           \/ \E c \in Callers : pc[c] = "fn" /\ held[c] = errRestored

C4_Witness ==
  \E c, d \in Callers :
    /\ c # d
    /\ pc[d] = "done"
    /\ result[d].err = ErrProto
    /\ pc[c] = "fn"
    /\ held[c] = errRestored
    /\ Count(log[c], "factory") = 0
CheckedOut(ch) == ~Destroyed(ch) /\ \E c \in Callers : held[c] = ch

AllCheckedOut == Cardinality({ch \in ChanIds : CheckedOut(ch)}) = maxSize

TimedOutNow(c) == result[c].err # ErrTimeout /\ result'[c].err = ErrTimeout

\* C5: while all maxSize channels are checked out no channel is created and
\* a further caller only blocks in the select; a channel returned while a
\* caller waits with its timer still running is acquired by a caller, which
\* runs its operation on it.
C5_BlockUntilReturned ==
  /\ [](AllCheckedOut =>
          /\ items = <<>>
          /\ \A c \in Callers : pc[c] = "fn" => CheckedOut(held[c]))
  /\ [][AllCheckedOut => nextId' = nextId]_vars
  /\ \A ch \in ChanIds :
        (/\ items # <<>>
         /\ Head(items) = ch
         /\ \E c \in Callers : pc[c] = "select" /\ waited[c] < timeout)
        ~> (\E c \in Callers : pc[c] = "fn" /\ held[c] = ch)

C5_Witness ==
  /\ maxSize = 1
  /\ \E c, d \in Callers :
        /\ pc[c] = "fn"
        /\ Count(log[c], "factory") = 0
        /\ Count(log[c], "recv") = 1
        /\ pc[d] = "done"
        /\ Count(log[d], "restore") = 1
        /\ Count(log[d], "factory") = 1

\* C6: a caller blocked in the select with its timer still running when an
\* eviction completes does not go on to fail with ErrTimeout.
C6_UnblockedByEviction ==
  [][\A c \in Callers : evictSeen[c] => ~TimedOutNow(c)]_vars

\* C7: ErrTimeout is returned only by a caller that waited the whole timeout
\* in the select and received no channel; with capacity 1 a caller whose
\* timer has fired while the channel is held elsewhere gets ErrTimeout.
C7_TimeoutExact ==
  /\ [][\A c \in Callers : TimedOutNow(c) =>
          /\ pc[c] = "select"
          /\ waited[c] >= timeout
          /\ held[c] = NoChan
          /\ Count(log[c], "recv") = 0]_vars
  /\ [](\A c \in Callers : pc[c] = "select" => waited[c] <= timeout)
  /\ \A c \in Callers :
        (maxSize = 1 /\ pc[c] = "select" /\ waited[c] >= timeout /\ items = <<>>)
        ~> (\/ pc[c] = "done" /\ result[c].err = ErrTimeout
            \/ pc[c] = "fn")

C7_Witness ==
  /\ maxSize = 1
  /\ \E c, d \in Callers :
        /\ pc[c] = "done"
        /\ result[c].err = ErrTimeout
        /\ pc[d] = "fn"
        /\ Count(log[d], "factory") = 1

\* C8 as claimed: the call that begins next after an eviction runs its
\* operation on a channel its own factory call created.
C8_NextAcquisitionCreates ==
  \A c \in Callers :
    (afterEvict[c] /\ pc[c] = "fn") => (newc[c] # NoChan /\ held[c] = newc[c])

\* C8 amended: the call that begins next after an eviction, with no channel
\* idle at that moment and no other call in progress or begun meanwhile,
\* invokes the factory and runs its operation on the channel it created.
C8_NextAcquisitionCreatesWhenNoneIdle ==
  \A c \in Callers :
    (afterEvict[c] /\ soloEmpty[c]) =>
      /\ pc[c] \in {"next", "new", "new_send", "new_inc", "select", "fn"}
      /\ pc[c] = "new" => curSize < maxSize
      /\ pc[c] \in {"select", "fn"} => Count(log[c], "factory") = 1
      /\ pc[c] = "select" => (items # <<>> /\ Head(items) = newc[c])
      /\ pc[c] = "fn" => (newc[c] # NoChan /\ held[c] = newc[c] /\ ~Destroyed(held[c]))

C8_Witness ==
  \E c \in Callers :
    /\ afterEvict[c]
    /\ soloEmpty[c]
    /\ pc[c] = "fn"
    /\ held[c] = newc[c]
    /\ \E ch \in ChanIds : Destroyed(ch)

\* C9: a failing factory makes Exec/Query return the factory's error at once
\* (no wait in the select), without invoking fn and without the call having
\* changed curSize or the idle queue.
C9_FactoryFailure ==
  /\ [](\A c \in Callers :
          (pc[c] = "done" /\ result[c].err = ErrNew) => log[c] = <<"factoryFailed">>)
  /\ [][\A c \in Callers :
          (result[c].err # ErrNew /\ result'[c].err = ErrNew) =>
            /\ pc[c] = "new"
            /\ pc'[c] = "done"
            /\ waited[c] = 0
            /\ items' = items
            /\ curSize' = curSize
            /\ nextId' = nextId
            /\ mu' = NoOwner]_vars

C9_Witness ==
  \E c, d \in Callers :
    /\ pc[c] = "done"
    /\ result[c].err = ErrNew
    /\ pc[d] = "fn"
    /\ curSize < maxSize

\* C10: a call that fails with ErrTimeout held no channel: it never received
\* one, never ran fn, closed nothing and did not decrement curSize.
C10_TimeoutHoldsNothing ==
  /\ [](\A c \in Callers :
          (pc[c] = "done" /\ result[c].err = ErrTimeout) =>
            log[c] \in {<<"timeout">>, <<"factory", "send", "inc", "timeout">>})
  /\ [][\A c \in Callers : TimedOutNow(c) =>
          /\ held[c] = NoChan
          /\ items' = items
          /\ curSize' = curSize
          /\ closeCalls' = closeCalls]_vars

C10_Witness ==
  \E c \in Callers :
    /\ pc[c] = "done"
    /\ result[c].err = ErrTimeout
    /\ log[c] = <<"factory", "send", "inc", "timeout">>

\* ------------------------------------------------- properties of Pool.Close
\* the drain loop has closed, exactly once, each channel it received, and
\* what it received was idle when the queue was closed
DrainedClosedOnce ==
  /\ \A ch \in Range(drained) : closeCalls[ch] = 1
  /\ Range(drained) \subseteq Range(idleAtClose)
  /\ \A i, j \in 1..Len(drained) : i # j => drained[i] # drained[j]

ClosedAtClose == {ch \in Range(idleAtClose) : closeCalls[ch] > 0}

OpenAtClose == {ch \in Range(idleAtClose) : closeCalls[ch] = 0}

\* Pool.Close returns the error of the i-th channel it drained, having
\* called Close on exactly i of the k channels idle at close time
FirstErrorAborts ==
  LET k == Len(idleAtClose)
      i == Len(drained)
  IN /\ i >= 1
     /\ closeErr = <<ErrClose, drained[i]>>
     /\ DrainedClosedOnce
     /\ Cardinality(ClosedAtClose) = i
     /\ Cardinality(OpenAtClose) = k - i
     /\ Range(items) \subseteq OpenAtClose

\* C12: when the Close of an idle channel fails during Pool.Close, Pool.Close
\* returns that error at once: at its return, of the k channels idle at close
\* time exactly i (the drained ones, the i-th being the failing one) have had
\* Close called, and k - i have not.
C12_FirstErrorAborts ==
  [][(cpc = "drain" /\ cpc' = "done" /\ closeErr' # NoCloseErr)
       => FirstErrorAborts']_vars

C12_Witness ==
  /\ cpc = "done"
  /\ closeErr # NoCloseErr
  /\ Len(idleAtClose) = 2
  /\ Len(drained) = 1
  /\ Len(items) = 1
  /\ closeCalls[items[1]] = 0

\* C13: once Pool.Close has returned nil and every call that was in progress
\* has finished, every channel the pool created has had Close called on it
\* (by an eviction or by Pool.Close) and none of those calls panicked.
C13_CloseTerminatesAll ==
  (cpc = "done" /\ closeErr = NoCloseErr /\ \A c \in Callers : Quiescent(c)) =>
     /\ \A ch \in ChanIds : Created(ch) => closeCalls[ch] > 0
     /\ \A c \in Callers : result[c].err # Panic

\* ----------------------------------------------- properties of the channel
\* the stream delivered a line that starts with the ERR tag
IsErrLine(in) == in.io = Nil /\ in.line # <<>> /\ in.line[1] = ErrTag

\* line is some text, "buffer(", the digits ds, ")" and nothing but white
\* space after it
BufferAnnounce(line, ds) ==
  \E i \in 2..Len(line), j \in 2..Len(line) :
    /\ i < j
    /\ line[i] = BufTag
    /\ SubSeq(line, i + 1, j - 1) = ds
    /\ line[j] = RParen
    /\ \A k \in (j + 1)..Len(line) : line[k] \in Space

RECURSIVE PlaceValue(_)
PlaceValue(ds) ==
  IF ds = <<>> THEN 0
  ELSE DigitVal(Head(ds)) * 10 ^ (Len(ds) - 1) + PlaceValue(Tail(ds))

Announced == DigitSeqs \ {<<>>}

\* the last step of newChannel read a line that is not an ERR line
ReadLine(step) == lastOp = step /\ lastRead.io = Nil /\ ~IsErrLine(lastRead)

\* the last step of newChannel met one of the failures named in C14
FailingStep ==
  \/ lastOp = "start" /\ ~wrote
  \/ lastOp \in {"read1", "read2"} /\ (lastRead.io # Nil \/ IsErrLine(lastRead))
  \/ /\ ReadLine("read2")
     /\ \A ds \in Announced : ~BufferAnnounce(lastRead.line, ds)

\* C14: when newChannel fails after a successful dial (START write failed, a
\* read failed or returned an ERR line, the buffer size line is malformed) it
\* has closed the connection when it returns the error, and returns no Channel.
C14_NoOpenConnOnFailure ==
  /\ FailingStep => chpc = "failed"
  /\ chpc = "failed" =>
       /\ returned = "nil"
       /\ chErr # NilErr
       /\ conn = IF lastOp = "dial" THEN "none" ELSE "closed"
  /\ returned = "channel" => lastOp \notin {"dial", "start", "read1"}

C14_Witness ==
  /\ chpc = "failed"
  /\ lastOp = "read2"
  /\ lastRead.io = Nil
  /\ chErr = E(ErrInvalidResponse, <<>>)
  /\ conn = "closed"
  /\ returned = "nil"

TextAfterTag(line, msg) ==
  \E i \in 2..(Len(line) + 1), j \in 1..Len(line) :
    /\ SubSeq(line, i, j) = msg
    /\ \A k \in 2..(i - 1) : line[k] \in Space
    /\ \A k \in (j + 1)..Len(line) : line[k] \in Space
    /\ msg # <<>> => msg[1] \notin Space /\ msg[Len(msg)] \notin Space

\* C16: a Read that is handed a line starting with `ERR ` returns a protocol
\* error whose message is the trimmed text after the tag; as first or second
\* reply of the handshake it makes newChannel fail with that error, as the
\* reply to PING it is the error of the operation.
C16_ErrLineIsProtocolError ==
  (/\ \/ lastOp \in {"read1", "read2"}
      \/ lastOp = "Ping" /\ wrote
   /\ IsErrLine(lastRead)) =>
     /\ chErr.kind = ErrProto
     /\ TextAfterTag(lastRead.line, chErr.msg)
     /\ lastOp \in {"read1", "read2"} => chpc = "failed" /\ returned = "nil"
     /\ lastRead.line = <<ErrTag, "bad", " ", "password">> \o Eol
          => chErr.msg = <<"bad", " ", "password">>

C16_Witness ==
  /\ chpc = "failed"
  /\ lastOp = "read2"
  /\ lastRead.line = <<ErrTag, "bad", " ", "password">> \o Eol
  /\ chErr = E(ErrProto, <<"bad", " ", "password">>)

\* C17: when the second handshake line does not end in buffer(<digits>), or
\* its number does not fit an int, newChannel fails with ErrInvalidResponse.
C17_MalformedIsInvalidResponse ==
  (/\ ReadLine("read2")
   /\ \A ds \in Announced :
        BufferAnnounce(lastRead.line, ds) => PlaceValue(ds) > IntMax) =>
     /\ chpc = "failed"
     /\ chErr = E(ErrInvalidResponse, <<>>)

\* C18: a Channel that newChannel returned has completed the handshake and
\* has a rune budget greater than zero.
C18_PositiveBudget ==
  returned = "channel" =>
     /\ chpc \in {"ready", "remove", "ended"}
     /\ maxRunes > 0

\* C19: when channel.Close has returned, the connection has been closed.
C19_CloseClosesTransport ==
  (chpc = "ended" /\ lastOp = "Close") => conn = "closed"

\* C20: a Read whose stream fails returns that failure itself, end-of-stream
\* included; when the stream ends under the Read of Ping, the operation's
\* error is io.EOF and the pool goes on to remove the channel instead of
\* restoring it.
C20_StreamFailureUnmodified ==
  /\ (/\ \/ lastOp \in {"read1", "read2"}
         \/ lastOp \in {"Ping", "Close"} /\ wrote
      /\ lastRead.io # Nil) => chErr = E(lastRead.io, <<>>)
  /\ (lastOp = "Ping" /\ wrote /\ lastRead.io = EOF) => chpc = "remove"
  /\ (lastOp = "Ping" /\ wrote /\ lastRead.io = ErrIO) => chpc = "ready"

C20_Witness ==
  /\ lastOp = "Ping"
  /\ wrote
  /\ lastRead.io = EOF
  /\ chErr = E(EOF, <<>>)
  /\ chpc = "remove"
  /\ conn = "open"
\* ------------------------------------------------------ Split and Escape
\* a byte sequence that is a well-formed UTF-8 encoding
RECURSIVE ValidUTF8(_)
ValidUTF8(b) ==
  \/ b = <<>>
  \/ b[1] \in Ascii /\ ValidUTF8(Tail(b))
  \/ Len(b) >= 2 /\ b[1] = "C3" /\ b[2] = "A9" /\ ValidUTF8(SubSeq(b, 3, Len(b)))
  \/ /\ Len(b) >= 3 /\ b[1] = "EF" /\ b[2] = "BF" /\ b[3] = "BD"
     /\ ValidUTF8(SubSeq(b, 4, Len(b)))

\* the strings of a sequence joined end to end
RECURSIVE Concat(_)
Concat(q) == IF q = <<>> THEN <<>> ELSE Head(q) \o Concat(Tail(q))

\* Split has returned
SplitDone == op = "Split" /\ ipc = "done"

\* every chunk Split returned holds at least one rune and at most the budget
ChunksWithinBudget ==
  \A k \in 1..Len(ss) : ss[k] # <<>> /\ Len(Runes(ss[k])) <= budget

\* C21 as stated: for every text and positive budget the chunks joined are the
\* text, each chunk has between 1 and budget runes, the empty text gives none
C21_Original ==
  (SplitDone /\ budget > 0) =>
    /\ Concat(ss) = text
    /\ ChunksWithinBudget
    /\ (text = <<>> => ss = <<>>)

\* C21 (amended): for every budget > 0, every chunk Split returns has between
\* 1 and budget runes and the empty text gives no chunk; the chunks joined are
\* the text when the text is well-formed UTF-8 (a byte that is not is
\* returned as the encoding of U+FFFD)
C21_SplitRoundTrip ==
  /\ (SplitDone /\ budget > 0) =>
       /\ ValidUTF8(text) => Concat(ss) = text
       /\ ~ValidUTF8(text) => Concat(ss) = String(Runes(text))
       /\ ChunksWithinBudget
  /\ (SplitDone /\ text = <<>>) => ss = <<>>

\* a well-formed text came back in several chunks, one of them with more bytes
\* than the budget has runes
C21_Witness ==
  /\ SplitDone
  /\ budget > 0
  /\ ValidUTF8(text)
  /\ Len(ss) >= 2
  /\ \E k \in 1..Len(ss) : Len(ss[k]) > budget

\* C22: Split on a channel whose budget is 0 returns the empty sequence for
\* every text: it never holds a chunk, and once its loop has nothing left to
\* do it has returned
C22_ZeroBudgetReturnsEmpty ==
  (op = "Split" /\ budget = 0) => ss = <<>>

\* Escape has returned
EscapeDone == op = "Escape" /\ ipc = "done"

\* what one byte of the text becomes
EscapedByte(b) ==
  IF b = "\\" THEN <<"\\", "\\">>
  ELSE IF b = "\n" THEN <<"\\", "n">>
  ELSE IF b = "\"" THEN <<"\\", "\"">>
  ELSE <<b>>

\* C23: Escape(text) is the text with every backslash doubled, then every
\* newline made backslash n, then every quote made backslash quote: byte by
\* byte, each of the three characters is rewritten once (a backslash that a
\* later replacement introduces is not doubled) and every other byte is kept
C23_EscapeIsThreeReplacements ==
  EscapeDone => esc = Concat([k \in 1..Len(text) |-> EscapedByte(text[k])])

\* a text that holds all three characters was escaped, each into two bytes
C23_Witness ==
  /\ EscapeDone
  /\ {"\\", "\n", "\""} \subseteq Range(text)
  /\ Len(esc) = 2 * Len(text)

\* the number of backslashes that end s
RECURSIVE TrailingBackslashes(_)
TrailingBackslashes(s) ==
  IF s = <<>> \/ s[Len(s)] # "\\" THEN 0
  ELSE 1 + TrailingBackslashes(SubSeq(s, 1, Len(s) - 1))

\* C24: Escape is injective (no other text has the same escaped form), its
\* output holds no newline, and every quote in it follows an odd run of
\* backslashes, i.e. is escaped
C24_EscapeInjective ==
  EscapeDone =>
    /\ \A t \in Texts : Escape(t) = esc => t = text
    /\ "\n" \notin Range(esc)
    /\ \A k \in 1..Len(esc) :
         esc[k] = "\"" => TrailingBackslashes(SubSeq(esc, 1, k - 1)) % 2 = 1

\* the text backslash n was escaped, whose escaped form differs from that of
\* the newline
C24_Witness ==
  /\ EscapeDone
  /\ text = <<"\\", "n">>
  /\ esc # Escape(<<"\n">>)
  /\ esc = <<"\\", "\\", "n">>

\* ---------------------------------------------------------------- commands
\* C25: every line Push or Pop has written carries its chunk of the text
\* escaped (backslash, newline and quote rewritten by Escape) between the
\* quotes, so it is one line: its only newline is the one that ends it
C25_TextIsEscaped ==
  op \in {"Push", "Pop"} =>
    \A k \in 1..Len(wire) :
      /\ wire[k] = CommandLine(op, Escape(ss[k]), lang) \o Eol
      /\ \A j \in 1..(Len(wire[k]) - 1) : wire[k][j] # "\n"

\* the sum of a sequence of numbers
RECURSIVE Sum(_)
Sum(q) == IF q = <<>> THEN 0 ELSE Head(q) + Sum(Tail(q))

\* the error a response makes Push or Pop stop with (nil: it goes on)
ReplyErr(in) ==
  IF ChannelRead(in).err # NilErr THEN ChannelRead(in).err
  ELSE IF op = "Pop" THEN ParseCount(ChannelRead(in).s).err
  ELSE NilErr

\* Push or Pop has split the text and is sending it
Sending == op \in {"Push", "Pop"} /\ ipc # "split"

\* C26: Push and Pop write one command per chunk of Split, in chunk order,
\* each after the response to the one before has been read (writes and reads
\* alternate), and stop at the first error (a response that is an error is
\* the last one read, and is what the call returns; after a failed write
\* nothing more is written); a call that returns without error has sent
\* every chunk, and Pop then returns the sum of the counts it was given
C26_ChunksInLockstep ==
  Sending =>
    /\ Len(wire) <= Len(ss)
    /\ \A k \in 1..Len(wire) : wire[k] = CommandLine(op, ss[k], lang) \o Eol
    /\ Len(wire) = Len(replies) + (IF ipc = "read" THEN 1 ELSE 0)
    /\ \A k \in 1..Len(replies) :
         ReplyErr(replies[k]) # NilErr =>
           k = Len(replies) /\ ipc = "done" /\ out.err = ReplyErr(replies[k])
    /\ (ipc = "done" /\ out.err = E(ErrWrite, <<>>)) => Len(wire) = sent
    /\ (ipc = "done" /\ out.err = NilErr) =>
         /\ Len(wire) = Len(ss)
         /\ op = "Pop" =>
              out.n = Sum([k \in 1..Len(replies) |->
                             ParseCount(ChannelRead(replies[k]).s).n])

\* Pop of a text of three chunks was given the counts 3, 7 and 3 and
\* returned 13
C26_Witness ==
  /\ op = "Pop"
  /\ ipc = "done"
  /\ Len(ss) = 3
  /\ ss[1] # ss[2]
  /\ Len(replies) = 3
  /\ out.err = NilErr
  /\ out.n = 13

\* Push stopped at an error response to its second chunk of three
C26_WitnessStop ==
  /\ op = "Push"
  /\ ipc = "done"
  /\ Len(ss) = 3
  /\ Len(wire) = 2
  /\ out.err = E(ErrProto, <<"x">>)

\* the last response read
LastReply == replies[Len(replies)]

\* a RESULT line whose value is not a number
BadCount(in) ==
  /\ in.io = Nil
  /\ HasPrefix(TrimSpace(in.line), <<"RESULT", " ">>)
  /\ \E k \in 3..Len(TrimSpace(in.line)) : TrimSpace(in.line)[k] \notin Digits

\* a line that is no error line and has not the format of the INFO result
\* with a number in each field
BadInfo(in) ==
  /\ in.io = Nil
  /\ ~HasPrefix(in.line, <<ErrTag>>)
  /\ InfoSubmatch(TrimSpace(in.line)) = <<>>

\* C27: Pop and Count given a RESULT line whose value is not a number, and
\* Info given a line that has not the INFO format or whose fields are not
\* numbers, return ErrInvalidResponse
C27_UnparsableIsInvalidResponse ==
  (ipc = "done" /\ replies # <<>>) =>
    /\ (op \in {"Pop", "Count"} /\ BadCount(LastReply)) =>
         out.err = E(ErrInvalidResponse, <<>>)
    /\ (op = "Info" /\ BadInfo(LastReply)) =>
         out.err = E(ErrInvalidResponse, <<>>)

\* ------------------------------------------------- construction, creation
\* no Exec or Query has been called since the pool was made
Untouched == \A c \in Callers : pc[c] = "idle"

\* the callers whose current or last call evicted a channel and got an error
\* from its Close: channel.Close returns the error of the QUIT exchange
\* without closing the connection, so that connection is still open
LeftOpen == {c \in Callers : Count(log[c], "closeFailed") > 0}

\* C28: the options are normalised (capacity at least 1, timeout at least
\* one tick, the default), construction does not invoke the factory, and a
\* pool with the default capacity 1 never has more than one connection open
C28_LazyNormalised ==
  /\ maxSize \in 1..MaxSizeOpt
  /\ timeout \in {DefaultTimeout} \cup 1..MaxTimeoutOpt
  /\ Untouched => (nextId = 1 /\ curSize = 0 /\ items = <<>>)
  /\ maxSize = 1 => LiveCount + Cardinality(LeftOpen) <= 1

\* this step is caller c invoking the factory (p.newFn() in new)
FactoryStep(c) ==
  /\ Len(log'[c]) = Len(log[c]) + 1
  /\ log'[c][Len(log'[c])] \in {"factory", "factoryFailed"}

\* C29 as stated: whenever the factory is invoked no channel is idle and
\* curSize is below maxSize
C29_CreatesOnlyWhenNoneIdle ==
  [][\A c \in Callers : FactoryStep(c) => (items = <<>> /\ curSize < maxSize)]_vars

\* C29 (amended): the factory is invoked only under the lock with curSize
\* below maxSize, by a caller that found the queue empty when it looked
\* (`len(p.items) < 1`, before taking the lock); with maxSize = 1 the queue is
\* still empty when the factory is invoked
C29_CreatesAfterEmptyCheck ==
  [][\A c \in Callers :
       /\ FactoryStep(c) =>
            /\ pc[c] = "new"
            /\ mu = NoOwner
            /\ curSize < maxSize
            /\ maxSize = 1 => items = <<>>
       /\ (pc[c] # "new" /\ pc'[c] = "new") => (pc[c] = "next" /\ items = <<>>)]_vars

\* the factory has been invoked by a caller while a channel sits idle
C29_Witness ==
  \E c \in Callers :
    /\ pc[c] = "new_send"
    /\ newc[c] # NoChan
    /\ items # <<>>
    /\ curSize < maxSize

\* C30: when channel.Close returns from the call Pool.remove makes on an
\* evicted channel (one whose stream ended under an operation), the
\* connection of that channel is closed
C30_EvictionClosesConnection ==
  [][(chpc = "remove" /\ chpc' = "ended") => conn' = "closed"]_vars

\* ------------------------------------------------- broken channels, counts
\* the errors with which the transport of a channel reports its failure
TransportErrs == {EOF, ErrIO, ErrWrite}

\* C31: the operation that first observes the failure of a channel's
\* transport, whatever error the transport reported (a failed write, a
\* failed or ended read), leaves the channel to be evicted, not restored
C31_BrokenChannelEvicted ==
  [][(chpc = "ready" /\ lastOp' = "Ping" /\ chErr'.kind \in TransportErrs)
        => chpc' = "remove"]_vars

\* the channels a caller has received and not yet restored or removed
InHand == {ch \in ChanIds : \E c \in Callers : held[c] = ch}

\* C32 as stated: in every state idle <= curSize <= maxSize; with the lock
\* free curSize = idle + checked out; the sends of new and restore find room
C32_Accounting ==
  /\ Len(items) <= curSize
  /\ curSize <= maxSize
  /\ mu = NoOwner => curSize = Len(items) + Cardinality(InHand)
  /\ \A c \in Callers : pc[c] \in {"new_send", "restore"} => CanSend(items, maxSize)

\* C32 (amended): curSize <= maxSize in every state; whenever the lock is
\* free, idle <= curSize and curSize = idle + checked out; while new holds the
\* lock between `p.items <- c` and `p.curSize++` the queue holds one channel
\* more than curSize counts; the sends of new and restore always find room
C32_AccountingLockFree ==
  /\ curSize <= maxSize
  /\ Len(items) <= curSize + 1
  /\ Len(items) > curSize => \E c \in Callers : pc[c] = "new_inc" /\ mu = c
  /\ mu = NoOwner =>
       /\ Len(items) <= curSize
       /\ curSize = Len(items) + Cardinality(InHand)
  /\ \A c \in Callers : pc[c] \in {"new_send", "restore"} => CanSend(items, maxSize)

\* capacity 2 in full use with the lock free: one channel idle, the other in
\* the hand of a caller that is about to restore it
C32_Witness ==
  /\ mu = NoOwner
  /\ maxSize = 2
  /\ curSize = 2
  /\ Len(items) = 1
  /\ \E c \in Callers : pc[c] = "restore"

\* C33: when the factory and every operation terminate, every Exec/Query
\* call returns, having run its operation or with ErrTimeout or the
\* factory's error, and the lock is held only inside new and remove, never by
\* a caller waiting in the select
C33_EveryCallReturns ==
  /\ [](\A c \in Callers :
          /\ mu = c => pc[c] \in {"new_send", "new_inc", "remove_dec"}
          /\ pc[c] = "done" => (OpRan(c) \/ result[c].err \in {ErrTimeout, ErrNew}))
  /\ \A c \in Callers : (pc[c] \notin {"idle", "done"}) ~> (pc[c] = "done")

\* a caller has waited in the select while another caller holds the lock
C33_Witness ==
  \E c, d \in Callers :
    /\ pc[c] = "select"
    /\ waited[c] > 0
    /\ mu = d

\* C34: on an open pool no channel has Close called on it twice, and a
\* channel Close has been called on is neither in the queue nor in the hand
\* of a caller whose operation is running or about to be restored
C34_ClosedOnceAndGone ==
  \A ch \in ChanIds :
    /\ closeCalls[ch] <= 1
    /\ Destroyed(ch) =>
         /\ ch \notin Range(items)
         /\ \A c \in Callers :
              (pc[c] \in {"fn", "restore", "remove"}) => held[c] # ch

\* a channel has been closed while another is idle and a third is in use
C34_Witness ==
  /\ \E ch \in ChanIds : Destroyed(ch)
  /\ items # <<>>
  /\ \E c \in Callers : pc[c] = "fn" /\ Live(held[c])

\* the number of channels the factory has made since the pool was made;
\* curSize never exceeds it
EverCreated == nextId - 1

\* C35: no call returns ErrTimeout if curSize stayed below maxSize all the
\* time it was waiting; in particular none does while the pool has made
\* fewer than maxSize channels in all, for then curSize has been below
\* maxSize ever since the pool was made
C35_TimeoutOnlyAtCapacity ==
  [][\A c \in Callers : TimedOutNow(c) => ~(EverCreated < maxSize)]_vars

\* ----------------------------------------------------------------- lockstep
\* the response lines the call has read
LinesRead == Cardinality({k \in 1..Len(replies) : replies[k].io = Nil})

\* the call is over, every write and read of it succeeded at the transport,
\* and Exec/Query have put the channel back in the queue (the call returned
\* nil, an ERR of the server, or an error of its own parsing)
Restored ==
  /\ op \in {"Push", "Pop", "Count", "Info"}
  /\ ipc = "done"
  /\ out.err.kind \in {Nil, ErrProto, ErrSyntax, ErrRange, ErrInvalidInfoResponse}

\* C36: when a channel goes back to the queue, every response the server has
\* sent for the lines written during the operation has been read: none is
\* left in the stream for the first Read of the next operation
C36_Lockstep ==
  Restored => ServerSent(wire) = LinesRead

====
